---- MODULE Spec2Model ----
(***************************************************************************)
(* A model of py_bitcask (src/src/py_bitcask/bitcask.py): one Bitcask      *)
(* object, the data directory it works on, and the uuid7 generator.        *)
(* Files are byte sequences; records and hint entries are encoded and      *)
(* decoded byte by byte as the code does with struct.pack / struct.unpack. *)
(***************************************************************************)
EXTENDS Bags, FiniteSets, Integers, Sequences, TLC

----------------------------------------------------------------------------
(* Bounds of the model.                                                    *)

\* the uuid7 generator is called at most MaxClock times, and at most
\* MaxCallClock times under SpecCalls
MaxClock == 7
MaxCallClock == 5
\* the uuid7 values a run that ends with an interrupted merge may use
MaxCrashClock == 8
\* the threshold the Bitcask object is constructed with: a record with a
\* one-byte key and a one-byte value (30 bytes) does not exceed it, one with
\* a two-byte value does
Threshold == 30

(* Program constants.                                                      *)
header_size == 28
hint_size == 28

\* two keys of one byte
Keys == {<<1>>, <<2>>}
\* non-empty values of two different lengths
Values == {<<5>>, <<6, 7>>}
\* the arguments open() is called with: the sentinel, an existing
\* directory, a path that is no directory
Memory == ":memory"
DataDir == "dir"
Missing == "missing"
OpenArgs == {Memory, DataDir, Missing}
MergeDir == "dir/merge"
\* self.__dirname = None and self.__active = None
NoDir == "None"
NoActive == -1
DB == ".db"
HINT == ".hint"

----------------------------------------------------------------------------
(* Byte strings.                                                           *)

Min(a, b) == IF a < b THEN a ELSE b

\* struct.pack(">L", n) and the 16 bytes of a uuid: n in w big-endian bytes
\* (the numbers of the model are below 256^3)
BE(n, w) ==
    [i \in 1..w |-> IF w - i > 2 THEN 0 ELSE (n \div (256 ^ (w - i))) % 256]

\* struct.unpack(">L", b) / int.from_bytes(b, "big"): the sum of the bytes,
\* each times the power of 256 of its place (BagCardinality adds up the
\* values of a function; the bytes that are 0 add nothing)
FromBE(b) ==
    BagCardinality([i \in {j \in 1..Len(b) : b[j] # 0} |->
                        b[i] * 256 ^ (Len(b) - i)])

\* file.read(n) at offset off: at most n bytes, fewer at the end of the file
ReadAt(bytes, off, n) == SubSeq(bytes, off + 1, Min(off + n, Len(bytes)))

\* zlib.crc32(data, crc): a running checksum of 32 bits, continued from crc.
\* The polynomial is replaced by the sum of the bytes, each plus one, modulo
\* a prime (BagCardinality adds up the values of a function); like crc32 it
\* changes with every byte and its length, and satisfies
\* crc32(a \o b, c) = crc32(b, crc32(a, c)).
crc32(data, crc) ==
    (crc + BagCardinality([i \in 1..Len(data) |-> data[i] + 1])) % 65521

\* crc32(uid.encode("utf-8")): the segment id of a stem
FileId(stem) == crc32(BE(stem, 16), 0)

\* pack(">16sLL", tstamp.bytes, key_sz, value_sz)
PackHead(tstamp, key_sz, value_sz) ==
    BE(tstamp, 16) \o BE(key_sz, 4) \o BE(value_sz, 4)

\* the record _put writes: crc, head, key, value
Encode(tstamp, key, value) ==
    LET head == PackHead(tstamp, Len(key), Len(value))
        crc  == crc32(value, crc32(key, crc32(head, 0)))
    IN  BE(crc, 4) \o head \o key \o value

\* pack(HINT_FORMAT, tstamp, key_sz, value_sz, value_pos) followed by the key
EncodeHint(hint) ==
    BE(hint.tstamp, 16) \o BE(hint.key_sz, 4) \o BE(hint.value_sz, 4)
        \o BE(hint.value_pos, 4) \o hint.key

\* the records of a data file from offset off on, as HEADER_FORMAT lays them
\* out: where each starts and ends, its timestamp, key and value
RECURSIVE Records(_, _)
Records(bytes, off) ==
    IF off + header_size > Len(bytes) THEN <<>>
    ELSE
        LET key_sz    == FromBE(ReadAt(bytes, off + 20, 4))
            value_sz  == FromBE(ReadAt(bytes, off + 24, 4))
            value_pos == off + header_size + key_sz
        IN  <<[off |-> off,
               tstamp |-> FromBE(ReadAt(bytes, off + 4, 16)),
               key |-> ReadAt(bytes, off + header_size, key_sz),
               value_sz |-> value_sz,
               value_pos |-> value_pos,
               value |-> ReadAt(bytes, value_pos, value_sz),
               end |-> value_pos + value_sz]>>
            \o Records(bytes, value_pos + value_sz)

----------------------------------------------------------------------------
(* Ordered dictionaries (Python dict): a sequence of entries with distinct  *)
(* keys, in insertion order.                                                *)

DictHas(d, key) == \E i \in 1..Len(d) : d[i].key = key

DictGet(d, key) == d[CHOOSE i \in 1..Len(d) : d[i].key = key]

\* d[key] = entry: an existing key keeps its place, a new one goes last
DictSet(d, entry) ==
    IF DictHas(d, entry.key)
    THEN [i \in 1..Len(d) |-> IF d[i].key = entry.key THEN entry ELSE d[i]]
    ELSE Append(d, entry)

\* del d[key]
DictDel(d, key) == SelectSeq(d, LAMBDA e : e.key # key)

DictKeys(d) == [i \in 1..Len(d) |-> d[i].key]

\* the permutations of a finite set, as sequences: the orders os.listdir
\* may return the entries of a directory in
RECURSIVE Orders(_)
Orders(S) ==
    IF S = {} THEN {<<>>}
    ELSE UNION {{<<x>> \o p : p \in Orders(S \ {x})} : x \in S}

----------------------------------------------------------------------------
(* The Bitcask object and its world, as one record c:                      *)
(*   dirname, active, keydir, datadir, cur   the object's attributes       *)
(*   fs      the directory c.dirname: file name <<stem, ext>> -> bytes     *)
(*   clock   the last value uuid.uuid7() returned                          *)
(*   exc     "ok", or the exception the call ended with                    *)
(* A keydir entry is a KeyRec with its key; a datadir entry is a file      *)
(* object: an open file (name, mode) or a BytesIO (buf).                   *)

KeyRec(key, file_id, value_sz, value_pos, tstamp) ==
    [key |-> key, file_id |-> file_id, value_sz |-> value_sz,
     value_pos |-> value_pos, tstamp |-> tstamp]

Hint(tstamp, key_sz, value_sz, value_pos, key) ==
    [tstamp |-> tstamp, key_sz |-> key_sz, value_sz |-> value_sz,
     value_pos |-> value_pos, key |-> key]

FileObj(stem, mode) == [name |-> <<stem, DB>>, mode |-> mode, buf |-> <<>>]
BytesIO == [name |-> <<0, DB>>, mode |-> "mem", buf |-> <<>>]

\* the bytes a file object of the datadir reads
Content(c, file_id) ==
    LET f == c.datadir[file_id]
    IN  IF f.mode = "mem" THEN f.buf ELSE c.fs[f.name]

\* BytesIO.write(data) after seek(pos): overwrites, and extends at the end
WriteAt(buf, pos, data) ==
    LET n == IF Len(buf) > pos + Len(data) THEN Len(buf) ELSE pos + Len(data)
    IN  [i \in 1..n |->
            IF i > pos /\ i <= pos + Len(data) THEN data[i - pos]
            ELSE IF i <= Len(buf) THEN buf[i] ELSE 0]

\* active.seek(pos); active.write(data): a file opened "a+b" appends
\* whatever the position, a BytesIO writes at the position
Write(c, file_id, pos, data) ==
    LET f == c.datadir[file_id]
    IN  IF f.mode = "mem"
        THEN [c EXCEPT !.datadir[file_id].buf = WriteAt(f.buf, pos, data)]
        ELSE [c EXCEPT !.fs[f.name] = @ \o data]

\* _reactivate without its last line, self.__cur = 0
ReactivateKeepsCursor(c) ==
    LET uid == c.clock + 1
        id  == FileId(uid)
    IN  IF c.dirname = NoDir
        THEN [c EXCEPT !.clock = uid, !.exc = "TypeError"]
        ELSE IF c.dirname # Memory
        THEN [c EXCEPT
                !.clock = uid,
                !.fs = (<<uid, DB>> :> <<>>) @@ c.fs,
                !.datadir =
                    (id :> FileObj(uid, "a+b")) @@
                    [f \in DOMAIN c.datadir |->
                        IF f = c.active
                        THEN [c.datadir[f] EXCEPT !.mode = "rb"]
                        ELSE c.datadir[f]],
                !.active = id]
        ELSE [c EXCEPT
                !.clock = uid,
                !.datadir = (id :> BytesIO) @@ c.datadir,
                !.active = id]

\* Bitcask._reactivate
_reactivate(c) ==
    LET uid == c.clock + 1
        id  == FileId(uid)
    IN  IF c.dirname = NoDir
        \* os.path.join(None, ...) raises before anything is assigned
        THEN [c EXCEPT !.clock = uid, !.exc = "TypeError"]
        ELSE IF c.dirname # Memory
        THEN [c EXCEPT
                !.clock = uid,
                !.fs = (<<uid, DB>> :> <<>>) @@ c.fs,
                !.datadir =
                    (id :> FileObj(uid, "a+b")) @@
                    [f \in DOMAIN c.datadir |->
                        IF f = c.active
                        THEN [c.datadir[f] EXCEPT !.mode = "rb"]
                        ELSE c.datadir[f]],
                !.active = id,
                !.cur = 0]
        ELSE [c EXCEPT
                !.clock = uid,
                !.datadir = (id :> BytesIO) @@ c.datadir,
                !.active = id,
                !.cur = 0]

\* Bitcask._get
_get(c, keyrec) ==
    LET bytes == Content(c, keyrec.file_id)
    IN  [i \in 1..keyrec.value_sz |->
            IF keyrec.value_pos + i <= Len(bytes)
            THEN bytes[keyrec.value_pos + i] ELSE 0]

\* a keydir entry whose value_pos is the cursor after the write
PutKeyRecAtCursor(key, active, value_sz, cur, tstamp) ==
    KeyRec(key, active, value_sz, cur, tstamp)

\* the keydir entry _put stores: the value ends at the new cursor
PutKeyRec(key, active, value_sz, cur, tstamp) ==
    KeyRec(key, active, value_sz, cur - value_sz, tstamp)

\* a rotation test that also rotates when the cursor is at the threshold
NeedsReactivateAtThreshold(c) == c.active = NoActive \/ c.cur >= Threshold

\* whether _put starts a new active file first
NeedsReactivate(c) == c.active = NoActive \/ c.cur > Threshold

\* Bitcask._put
_put(c, key, value) ==
    LET c1     == IF NeedsReactivate(c) THEN _reactivate(c) ELSE c
        tstamp == c1.clock + 1
        rec    == Encode(tstamp, key, value)
        c2     == Write(c1, c1.active, c1.cur, rec)
        ncur   == c1.cur + Len(rec)
    IN  IF c1.exc # "ok" THEN c1
        ELSE [c2 EXCEPT
                !.clock = tstamp,
                !.cur = ncur,
                !.keydir = DictSet(c1.keydir,
                              PutKeyRec(key, c1.active, Len(value), ncur, tstamp))]

\* put without its check of the value's length
PutUnchecked(c, key, value) == _put(c, key, value)

\* Bitcask.put
put(c, key, value) ==
    IF Len(value) = 0 THEN [c EXCEPT !.exc = "ValueError"]
    ELSE _put(c, key, value)

\* delete without its del self.__keydir[key]
DeleteKeepsEntry(c, key) == _put(c, key, <<>>)

\* the body of Bitcask.delete once the key is known to be present
_delete(c, key) ==
    LET c1 == _put(c, key, <<>>)
    IN  [c1 EXCEPT !.keydir = DictDel(c1.keydir, key)]

\* delete without its check that the key is in the keydir
DeleteUnchecked(c, key) == _delete(c, key)

\* Bitcask.delete
delete(c, key) ==
    IF ~DictHas(c.keydir, key) THEN [c EXCEPT !.exc = "KeyError"]
    ELSE _delete(c, key)

\* Bitcask.get: the exception, or the value returned
get(c, key) ==
    IF ~DictHas(c.keydir, key) THEN [exc |-> "KeyError", ret |-> <<>>]
    ELSE [exc |-> "ok", ret |-> _get(c, DictGet(c.keydir, key))]

\* sync without its test for the in-memory store
SyncUnchecked(c) ==
    IF c.active \notin DOMAIN c.datadir THEN [c EXCEPT !.exc = "KeyError"]
    ELSE c

\* Bitcask.sync: nothing to model of flush() but the exceptions
sync(c) ==
    IF c.dirname = Memory THEN [c EXCEPT !.exc = "RuntimeError"]
    ELSE IF c.active \notin DOMAIN c.datadir THEN [c EXCEPT !.exc = "KeyError"]
    ELSE c

\* Bitcask.list_keys
list_keys(c) == DictKeys(c.keydir)

\* an iteration that reads every value from the active file
IterValuesFromActive(c) ==
    [i \in 1..Len(c.keydir) |->
        _get(c, [c.keydir[i] EXCEPT
                    !.file_id = IF c.active \in DOMAIN c.datadir
                                THEN c.active ELSE @])]

\* Bitcask.__iter__ / __next__ run to the end by reduce(): the values of the
\* keydir's entries in order, each read by _get
IterValues(c) == [i \in 1..Len(c.keydir) |-> _get(c, c.keydir[i])]

\* self.__iter after _reset: None
NoIter == [state |-> "None", used |-> 0, pos |-> 0]

\* Bitcask.__iter__: iter(self.__keydir.values()), an iterator on the dict
\* itself that remembers the dict's size and how many entries it has passed
__iter__(c) == [state |-> "iter", used |-> Len(c.keydir), pos |-> 0]

\* the iterator reduce() leaves behind: at the end of the dict
Exhausted(c) == [state |-> "iter", used |-> Len(c.keydir), pos |-> Len(c.keydir)]

\* Bitcask.__next__ with self.__iter = it: next() of None is a TypeError; a
\* dict iterator raises RuntimeError, now and ever after, once the dict's
\* size is not the one it remembers; at the end it raises StopIteration
__next__(c, it) ==
    IF it.state = "None"
    THEN [iter |-> it, exc |-> "TypeError", ret |-> <<>>]
    ELSE IF it.used # Len(c.keydir)
    THEN [iter |-> [it EXCEPT !.used = -1], exc |-> "RuntimeError", ret |-> <<>>]
    ELSE IF it.pos >= Len(c.keydir)
    THEN [iter |-> it, exc |-> "StopIteration", ret |-> <<>>]
    ELSE [iter |-> [it EXCEPT !.pos = @ + 1], exc |-> "ok",
          ret |-> _get(c, c.keydir[it.pos + 1])]

----------------------------------------------------------------------------
(* Recovery: Bitcask._read_hints and Bitcask._open_with_hints.             *)

KeyState(tstamp, deleted, stem, hint) ==
    [key |-> hint.key, tstamp |-> tstamp, deleted |-> deleted,
     file_id |-> stem, hint |-> hint]

\* whether read_data_file replaces the candidate it has for the key
DataWins(keys, key, tstamp) ==
    ~DictHas(keys, key) \/ DictGet(keys, key).tstamp < tstamp

\* _read_hints.read_data_file from offset off; st = [keys, err]
RECURSIVE read_data_file(_, _, _, _)
read_data_file(bytes, stem, off, st) ==
    LET data == ReadAt(bytes, off, header_size)
    IN  IF Len(data) = 0 THEN st
        ELSE IF Len(data) < header_size
        THEN [st EXCEPT !.err = "struct.error"]
        ELSE
            LET tstamp    == FromBE(SubSeq(data, 5, 20))
                key_sz    == FromBE(SubSeq(data, 21, 24))
                value_sz  == FromBE(SubSeq(data, 25, 28))
                key       == ReadAt(bytes, off + header_size, key_sz)
                value_pos == off + header_size + Len(key)
                hint      == Hint(tstamp, key_sz, value_sz, value_pos, key)
                keys      ==
                    IF DataWins(st.keys, key, tstamp)
                    THEN DictSet(st.keys,
                                 KeyState(tstamp, value_sz = 0, stem, hint))
                    ELSE st.keys
            IN  read_data_file(bytes, stem, value_pos + value_sz,
                               [st EXCEPT !.keys = keys])

\* whether read_hint_file replaces the candidate it has for the key
HintWins(keys, key, tstamp) == TRUE

\* _read_hints.read_hint_file from offset off; st = [keys, err]
RECURSIVE read_hint_file(_, _, _, _)
read_hint_file(bytes, stem, off, st) ==
    LET data == ReadAt(bytes, off, hint_size)
    IN  IF Len(data) = 0 THEN st
        ELSE IF Len(data) < hint_size
        THEN [st EXCEPT !.err = "struct.error"]
        ELSE
            LET tstamp    == FromBE(SubSeq(data, 1, 16))
                key_sz    == FromBE(SubSeq(data, 17, 20))
                value_sz  == FromBE(SubSeq(data, 21, 24))
                value_pos == FromBE(SubSeq(data, 25, 28))
                key       == ReadAt(bytes, off + hint_size, key_sz)
                hint      == Hint(tstamp, key_sz, value_sz, value_pos, key)
                keys      ==
                    IF HintWins(st.keys, key, tstamp)
                    THEN DictSet(st.keys, KeyState(tstamp, FALSE, stem, hint))
                    ELSE st.keys
            IN  read_hint_file(bytes, stem, off + hint_size + Len(key),
                               [st EXCEPT !.keys = keys])

\* the stems of the directory's .db files
DbStems(fs) == {n[1] : n \in {m \in DOMAIN fs : m[2] = DB}}

\* the stems of the .db files _read_hints reads something of: those with a
\* hint file or a data file of at least one header; the loop passes over
\* the others, wherever listdir puts them
ReadStems(fs) ==
    {stem \in DbStems(fs) :
        \/ <<stem, HINT>> \in DOMAIN fs /\ Len(fs[<<stem, HINT>>]) >= hint_size
        \/ Len(fs[<<stem, DB>>]) >= header_size}

\* the loop of _read_hints over the .db files, in the order listdir gave
RECURSIVE ScanFiles(_, _, _)
ScanFiles(fs, order, st) ==
    IF Len(order) = 0 \/ st.err # "ok" THEN st
    ELSE
        LET stem == Head(order)
            hf   == <<stem, HINT>>
            df   == <<stem, DB>>
            st1  ==
                IF hf \in DOMAIN fs /\ Len(fs[hf]) >= hint_size
                THEN read_hint_file(fs[hf], stem, 0, st)
                ELSE IF Len(fs[df]) >= header_size
                THEN read_data_file(fs[df], stem, 0, st)
                ELSE st
        IN  ScanFiles(fs, Tail(order), st1)

\* the last loop of _read_hints: the hints of the live keys, by file
RECURSIVE GroupHints(_, _)
GroupHints(keys, hint_files) ==
    IF Len(keys) = 0 THEN hint_files
    ELSE
        LET ks == Head(keys)
            hs == IF DictHas(hint_files, ks.file_id)
                  THEN DictGet(hint_files, ks.file_id).hints ELSE <<>>
        IN  GroupHints(Tail(keys),
                IF ks.deleted THEN hint_files
                ELSE DictSet(hint_files,
                        [key |-> ks.file_id, hints |-> Append(hs, ks.hint)]))

\* Bitcask._read_hints on a directory: [err, hint_files], hint_files an
\* ordered dictionary stem -> hints
_read_hints(fs, order) ==
    LET st == ScanFiles(fs, order, [keys |-> <<>>, err |-> "ok"])
    IN  [err |-> st.err, hint_files |-> GroupHints(st.keys, <<>>)]

\* the inner loop of _open_with_hints
RECURSIVE AddHints(_, _, _)
AddHints(keydir, file_id, hints) ==
    IF Len(hints) = 0 THEN keydir
    ELSE
        LET h == Head(hints)
        IN  AddHints(DictSet(keydir,
                        KeyRec(h.key, file_id, h.value_sz, h.value_pos, h.tstamp)),
                     file_id, Tail(hints))

\* Bitcask._open_with_hints
RECURSIVE _open_with_hints(_, _)
_open_with_hints(c, hint_files) ==
    IF Len(hint_files) = 0 THEN c
    ELSE
        LET stem    == Head(hint_files).key
            file_id == FileId(stem)
        IN  _open_with_hints(
                [c EXCEPT
                    !.datadir = (file_id :> FileObj(stem, "rb")) @@ c.datadir,
                    !.keydir = AddHints(c.keydir, file_id, Head(hint_files).hints)],
                Tail(hint_files))

\* an open that takes the first data file it has opened as its active file
\* and goes on writing at its end
OpenResumes(c, dataDir, order) ==
    IF dataDir # Memory /\ dataDir # DataDir
    THEN [c EXCEPT !.exc = "NotADirectoryError"]
    ELSE IF c.dirname # NoDir
    THEN [c EXCEPT !.exc = "RuntimeError"]
    ELSE IF dataDir = Memory
    THEN [c EXCEPT !.dirname = dataDir]
    ELSE
        LET r == _read_hints(c.fs, order)
            o == _open_with_hints([c EXCEPT !.dirname = dataDir], r.hint_files)
        IN  IF r.err # "ok"
            THEN [c EXCEPT !.dirname = dataDir, !.exc = r.err]
            ELSE IF Len(r.hint_files) = 0 THEN o
            ELSE LET stem == r.hint_files[1].key
                 IN  [o EXCEPT !.active = FileId(stem),
                               !.datadir[FileId(stem)].mode = "a+b",
                               !.cur = Len(c.fs[<<stem, DB>>])]

\* Bitcask.open(dataDir), with the order listdir returns the .db files in
open(c, dataDir, order) ==
    IF dataDir # Memory /\ dataDir # DataDir
    THEN [c EXCEPT !.exc = "NotADirectoryError"]
    ELSE IF c.dirname # NoDir
    THEN [c EXCEPT !.exc = "RuntimeError"]
    ELSE IF dataDir = Memory
    THEN [c EXCEPT !.dirname = dataDir]
    ELSE
        LET r == _read_hints(c.fs, order)
        IN  IF r.err # "ok"
            THEN [c EXCEPT !.dirname = dataDir, !.exc = r.err]
            ELSE _open_with_hints([c EXCEPT !.dirname = dataDir], r.hint_files)

\* Bitcask._reset
_reset(c) ==
    [c EXCEPT !.dirname = NoDir, !.active = NoActive,
              !.keydir = <<>>, !.datadir = <<>>]

\* close that resets the attributes only when there is no active file
CloseKeepsOpen(c) == IF c.active = NoActive THEN _reset(c) ELSE c

\* Bitcask.close
close(c) == _reset(c)

----------------------------------------------------------------------------
(* Bitcask.merge.                                                          *)

\* Bitcask(self.threshold) opened on the new, empty directory dir/merge
NewMergeCask(clock) ==
    [dirname |-> MergeDir, active |-> NoActive, keydir |-> <<>>,
     datadir |-> <<>>, cur |-> 0, fs |-> <<>>, clock |-> clock, exc |-> "ok"]

\* the test of merge's first loop, inverted
IsActive(keyrec, active) == keyrec.file_id = active

\* whether merge copies the entry into the merge store
IsImmutable(keyrec, active) == keyrec.file_id # active

\* the first loop of merge: the latest values of the immutable files are
\* put into the merge store mc, in keydir order
RECURSIVE MergePuts(_, _, _)
MergePuts(c, entries, mc) ==
    IF Len(entries) = 0 \/ mc.exc # "ok" THEN mc
    ELSE
        LET keyrec == Head(entries)
        IN  MergePuts(c, Tail(entries),
                IF IsImmutable(keyrec, c.active)
                THEN put(mc, keyrec.key, _get(c, keyrec))
                ELSE mc)

\* the bytes of one hint file
RECURSIVE HintBytes(_)
HintBytes(hints) ==
    IF Len(hints) = 0 THEN <<>>
    ELSE EncodeHint(Head(hints)) \o HintBytes(Tail(hints))

\* the hint files merge writes into dir/merge
RECURSIVE WriteHints(_, _)
WriteHints(fs, hint_files) ==
    IF Len(hint_files) = 0 THEN fs
    ELSE WriteHints((<<Head(hint_files).key, HINT>> :> HintBytes(Head(hint_files).hints)) @@ fs,
                    Tail(hint_files))

\* the orders listdir may return the merge directory's .db files in
MergeOrders(c) ==
    IF c.dirname # DataDir THEN {<<>>}
    ELSE Orders(ReadStems(MergePuts(c, c.keydir, NewMergeCask(c.clock)).fs))

\* a merge that keeps the keydir entries of the files it removes and drops
\* those of the active file
DropActive(keydir, active) == SelectSeq(keydir, LAMBDA e : e.file_id # active)

\* the keydir entries merge keeps: those of the active file
KeepActive(keydir, active) == SelectSeq(keydir, LAMBDA e : e.file_id = active)

\* the files merge removes: those of the datadir's file objects other than
\* the active one
OldFiles(c) == {c.datadir[f].name : f \in DOMAIN c.datadir \ {c.active}}

\* Bitcask.merge; order is the order listdir returns the merge directory's
\* .db files in when the merge store reads its hints
merge(c, order) ==
    IF c.dirname = Memory THEN [c EXCEPT !.exc = "RuntimeError"]
    ELSE IF c.dirname = NoDir THEN [c EXCEPT !.exc = "TypeError"]
    ELSE
    LET mc1 == MergePuts(c, c.keydir, NewMergeCask(c.clock))
        mc2 == _reactivate(mc1)
        r   == _read_hints(mc2.fs, order)
        mfs == WriteHints(mc2.fs, r.hint_files)
        fs1 == mfs @@ c.fs
        old == OldFiles(c)
        c1  == [c EXCEPT
                  !.clock = mc2.clock,
                  !.keydir = KeepActive(c.keydir, c.active),
                  !.datadir = [f \in DOMAIN c.datadir \cap {c.active} |-> c.datadir[f]],
                  !.fs = [n \in DOMAIN fs1 \ old |-> fs1[n]]]
    IN  IF mc1.exc # "ok" THEN [c EXCEPT !.clock = mc1.clock, !.exc = mc1.exc]
        ELSE IF r.err # "ok" THEN [c EXCEPT !.clock = mc2.clock, !.exc = r.err]
        ELSE _open_with_hints(c1, r.hint_files)

----------------------------------------------------------------------------
(* The state: the attributes of the one Bitcask object, the data           *)
(* directory, the uuid7 generator, and the history the properties are      *)
(* stated with.                                                            *)

VARIABLES
    dirname,    \* self.__dirname
    active,     \* self.__active
    keydir,     \* self.__keydir
    datadir,    \* self.__datadir
    cur,        \* self.__cur
    iter,       \* self.__iter: None, or a dict iterator
    fs,         \* the files of the data directory
    clock,      \* the last uuid7
    last,       \* the last call: [op, key, value, exc, ret]
    atclose,    \* key -> what get(key) gave when the directory was closed last
    sess,       \* key -> what this session did with the key
    ord,        \* the keys the session found, then those it put, in order
    sdel,       \* whether the session has deleted a key
    twin,       \* a store on an empty directory that is given the calls of
                \* the in-memory session
    hurt,       \* the damage done to a data file while the store was closed
    runs        \* the iterations the caller has started: what each has got

vars == <<dirname, active, keydir, datadir, cur, iter, fs, clock, last,
          atclose, sess, ord, sdel, twin, hurt, runs>>

\* the object's attributes and its world as one record
Self ==
    [dirname |-> dirname, active |-> active, keydir |-> keydir,
     datadir |-> datadir, cur |-> cur, fs |-> fs, clock |-> clock,
     exc |-> "ok"]

\* the state after a call that left the object and its world as c
Becomes(c) ==
    /\ dirname' = c.dirname
    /\ active' = c.active
    /\ keydir' = c.keydir
    /\ datadir' = c.datadir
    /\ cur' = c.cur
    /\ fs' = c.fs
    /\ clock' = c.clock

Call(op, key, value, exc, ret) ==
    [op |-> op, key |-> key, value |-> value, exc |-> exc, ret |-> ret]

\* what a session did with a key: the last successful call ("none", "put",
\* "del"), the value last put, and how often it put and deleted the key
Untouched == [state |-> "none", val |-> <<>>, puts |-> 0, dels |-> 0]
NewSession == [k \in Keys |-> Untouched]

\* a Bitcask object opened on an existing, empty directory, with the uuid7
\* generator at clk and the cursor the earlier sessions left
NewTwin(clk, cursor) ==
    [dirname |-> DataDir, active |-> NoActive, keydir |-> <<>>,
     datadir |-> <<>>, cur |-> cursor, fs |-> <<>>, clock |-> clk,
     exc |-> "ok"]

\* the twin after a call that left it as c
Twin(c) == [c EXCEPT !.exc = "ok"]

\* no file has been damaged
Unhurt == [kind |-> "none", stem |-> 0, off |-> 0, key |-> <<>>, value_pos |-> 0]

\* an iteration the caller holds: whether it has been started, the last
\* uuid7 and the values the store held when it was, the values it has got,
\* and how it ended
NoRun == [begun |-> FALSE, at |-> 0, snap |-> <<>>, got |-> <<>>, exc |-> "ok"]
NoRuns == [h \in 1..2 |-> NoRun]

\* Bitcask.__init__ on an existing, empty directory
Init ==
    /\ dirname = NoDir
    /\ active = NoActive
    /\ keydir = <<>>
    /\ datadir = <<>>
    /\ cur = 0
    /\ iter = NoIter
    /\ fs = <<>>
    /\ clock = 0
    /\ last = Call("init", <<>>, <<>>, "ok", <<>>)
    /\ atclose = [k \in Keys |-> get(Self, k)]
    /\ sess = NewSession
    /\ ord = <<>>
    /\ sdel = FALSE
    /\ twin = NewTwin(0, 0)
    /\ hurt = Unhurt
    /\ runs = NoRuns

\* the orders listdir may return the data directory's .db files in
OpenOrders(c, dataDir) ==
    IF dataDir = DataDir /\ c.dirname = NoDir THEN Orders(ReadStems(c.fs))
    ELSE {<<>>}

Open(dataDir) ==
    \E order \in OpenOrders(Self, dataDir) :
        \E c \in {open(Self, dataDir, order)} :
            /\ Becomes(c)
            /\ last' = Call("open", <<>>, <<>>, c.exc, <<>>)
            /\ ord' = IF c.dirname # dirname THEN list_keys(c) ELSE ord
            /\ twin' = IF c.dirname # dirname /\ c.dirname = Memory
                       THEN NewTwin(c.clock, c.cur) ELSE twin
            /\ UNCHANGED <<iter, atclose, sess, sdel, hurt, runs>>

Put(key, value) ==
    \E c \in {put(Self, key, value)} :
        /\ c.clock <= MaxClock
        /\ Becomes(c)
        /\ last' = Call("put", key, value, c.exc, <<>>)
        /\ IF c.exc = "ok"
           THEN /\ sess' = [sess EXCEPT ![key] =
                              [state |-> "put", val |-> value,
                               puts |-> @.puts + 1, dels |-> @.dels]]
                /\ ord' = IF \E i \in 1..Len(ord) : ord[i] = key
                          THEN ord ELSE Append(ord, key)
           ELSE UNCHANGED <<sess, ord>>
        /\ twin' = IF dirname = Memory THEN Twin(put(twin, key, value))
                   ELSE twin
        /\ UNCHANGED <<iter, atclose, sdel, hurt, runs>>

Delete(key) ==
    \E c \in {delete(Self, key)} :
        /\ c.clock <= MaxClock
        /\ Becomes(c)
        /\ last' = Call("delete", key, <<>>, c.exc, <<>>)
        /\ IF c.exc = "ok"
           THEN /\ sess' = [sess EXCEPT ![key] =
                              [state |-> "del", val |-> <<>>,
                               puts |-> @.puts, dels |-> @.dels + 1]]
                /\ ord' = SelectSeq(ord, LAMBDA k : k # key)
                /\ sdel' = TRUE
           ELSE UNCHANGED <<sess, ord, sdel>>
        /\ twin' = IF dirname = Memory THEN Twin(delete(twin, key))
                   ELSE twin
        /\ UNCHANGED <<iter, atclose, hurt, runs>>

Get(key) ==
    \E r \in {get(Self, key)} :
        /\ last' = Call("get", key, <<>>, r.exc, r.ret)
        /\ UNCHANGED <<dirname, active, keydir, datadir, cur, iter, fs, clock,
                       atclose, sess, ord, sdel, twin, hurt, runs>>

ListKeys ==
    /\ last' = Call("list_keys", <<>>, <<>>, "ok", list_keys(Self))
    /\ UNCHANGED <<dirname, active, keydir, datadir, cur, iter, fs, clock,
                   atclose, sess, ord, sdel, twin, hurt, runs>>

\* Bitcask.fold with the function that appends each value to the list acc
Fold ==
    /\ last' = Call("fold", <<>>, <<>>, "ok", IterValues(Self))
    /\ iter' = Exhausted(Self)
    /\ UNCHANGED <<dirname, active, keydir, datadir, cur, fs, clock,
                   atclose, sess, ord, sdel, twin, hurt, runs>>

Merge ==
    \E order \in MergeOrders(Self) :
        \E c \in {merge(Self, order)} :
            /\ c.clock <= MaxClock
            /\ Becomes(c)
            /\ last' = Call("merge", <<>>, <<>>, c.exc, <<>>)
            /\ UNCHANGED <<iter, atclose, sess, ord, sdel, twin, hurt, runs>>

Sync ==
    /\ last' = Call("sync", <<>>, <<>>, sync(Self).exc, <<>>)
    /\ UNCHANGED <<dirname, active, keydir, datadir, cur, iter, fs, clock,
                   atclose, sess, ord, sdel, twin, hurt, runs>>

Close ==
    /\ Becomes(close(Self))
    /\ iter' = NoIter
    /\ last' = Call("close", <<>>, <<>>, "ok", <<>>)
    /\ atclose' = IF dirname = DataDir
                  THEN [k \in Keys |-> get(Self, k)] ELSE atclose
    /\ sess' = NewSession
    /\ ord' = <<>>
    /\ sdel' = FALSE
    /\ twin' = NewTwin(0, 0)
    /\ UNCHANGED <<hurt, runs>>

----------------------------------------------------------------------------
(* Iteration step by step: iter(store) and next() on what it returned.     *)

\* iter(store) for the caller's iteration h: __iter__ returns self
IterStart(h) ==
    /\ dirname # NoDir
    /\ ~runs[h].begun
    /\ iter' = __iter__(Self)
    /\ runs' = [runs EXCEPT ![h] = [begun |-> TRUE, at |-> clock,
                                    snap |-> IterValues(Self),
                                    got |-> <<>>, exc |-> "ok"]]
    /\ last' = Call("iter", <<>>, <<>>, "ok", <<>>)
    /\ UNCHANGED <<dirname, active, keydir, datadir, cur, fs, clock,
                   atclose, sess, ord, sdel, twin, hurt>>

\* next() on the caller's iteration h, which is the store itself
IterNext(h) ==
    /\ runs[h].begun
    /\ runs[h].exc = "ok"
    /\ \E r \in {__next__(Self, iter)} :
        /\ iter' = r.iter
        /\ runs' = [runs EXCEPT ![h] =
                        IF r.exc = "ok" THEN [@ EXCEPT !.got = Append(@, r.ret)]
                        ELSE [@ EXCEPT !.exc = r.exc]]
        /\ last' = Call("next", <<>>, <<>>, r.exc, r.ret)
    /\ UNCHANGED <<dirname, active, keydir, datadir, cur, fs, clock,
                   atclose, sess, ord, sdel, twin, hurt>>

----------------------------------------------------------------------------
(* Damage to the files of a closed store.                                  *)

\* the byte b with bit number bit inverted
FlipBit(b, bit) ==
    IF (b \div (2 ^ bit)) % 2 = 1 THEN b - 2 ^ bit ELSE b + 2 ^ bit

\* the .db files that have no hint file
Unhinted(files) == {stem \in DbStems(files) : <<stem, HINT>> \notin DOMAIN files}

\* what is remembered of the damaged record r of the file stem
Hurt(kind, stem, r) ==
    [kind |-> kind, stem |-> stem, off |-> r.off, key |-> r.key,
     value_pos |-> r.value_pos]

\* one bit of the payload (key or value) of one record of a data file
\* without hint file is inverted while the store is closed
Flip ==
    /\ dirname = NoDir
    /\ hurt = Unhurt
    /\ \E stem \in Unhinted(fs) :
        LET bytes == fs[<<stem, DB>>]
            recs  == Records(bytes, 0)
        IN  \E j \in 1..Len(recs) :
            \E i \in (recs[j].off + header_size + 1)..recs[j].end :
            \E bit \in 0..7 :
                /\ fs' = [fs EXCEPT ![<<stem, DB>>][i] = FlipBit(@, bit)]
                /\ hurt' = Hurt("flip", stem, recs[j])
    /\ last' = Call("flip", <<>>, <<>>, "ok", <<>>)
    /\ UNCHANGED <<dirname, active, keydir, datadir, cur, iter, clock,
                   atclose, sess, ord, sdel, twin, runs>>

\* the last record of a data file is cut to a strict prefix of n bytes, as
\* a write that was interrupted leaves it
Tear ==
    /\ dirname = NoDir
    /\ hurt = Unhurt
    /\ \E stem \in Unhinted(fs) :
        LET bytes == fs[<<stem, DB>>]
            recs  == Records(bytes, 0)
        IN  /\ Len(recs) > 0
            /\ LET r == recs[Len(recs)]
               IN  \E n \in 1..(r.end - r.off - 1) :
                    /\ fs' = [fs EXCEPT ![<<stem, DB>>] =
                                SubSeq(bytes, 1, r.off + n)]
                    /\ hurt' = Hurt("torn", stem, r)
    /\ last' = Call("tear", <<>>, <<>>, "ok", <<>>)
    /\ UNCHANGED <<dirname, active, keydir, datadir, cur, iter, clock,
                   atclose, sess, ord, sdel, twin, runs>>

----------------------------------------------------------------------------
(* A process that stops during merge().                                    *)

\* the files of the data directory when merge() has moved the files moved
\* out of the merge directory and removed the files removed
Interrupted(files, mfs, moved, removed) ==
    LET all == [n \in moved |-> mfs[n]] @@ files
    IN  [n \in DOMAIN all \ removed |-> all[n]]

\* the process stops during merge(): while the merge store or the hint
\* files are built (nothing moved yet), after any number of the merge
\* directory's files have been moved, or after the old files have been
\* removed; of the removals only the point after the last one is taken, the
\* order of the segment map not being part of the state. The object is
\* gone; what get() gave before the merge is remembered.
Crash ==
    /\ dirname = DataDir
    /\ hurt = Unhurt
    /\ \E order \in MergeOrders(Self) :
       \E mc1 \in {MergePuts(Self, keydir, NewMergeCask(clock))} :
       \E mc2 \in {_reactivate(mc1)} :
       \E r \in {_read_hints(mc2.fs, order)} :
       \E mfs \in {WriteHints(mc2.fs, r.hint_files)} :
       \E moved \in SUBSET DOMAIN mfs :
       \E removed \in {{}, OldFiles(Self)} :
            /\ mc1.exc = "ok" /\ r.err = "ok"
            /\ mc2.clock <= MaxCrashClock
            /\ removed # {} => moved = DOMAIN mfs
            /\ fs' = Interrupted(fs, mfs, moved, removed)
            /\ clock' = mc2.clock
    /\ dirname' = NoDir
    /\ active' = NoActive
    /\ keydir' = <<>>
    /\ datadir' = <<>>
    /\ cur' = 0
    /\ iter' = NoIter
    /\ last' = Call("crash", <<>>, <<>>, "ok", <<>>)
    /\ atclose' = [k \in Keys |-> get(Self, k)]
    /\ sess' = NewSession
    /\ ord' = <<>>
    /\ sdel' = FALSE
    /\ hurt' = [Unhurt EXCEPT !.kind = "crash"]
    /\ UNCHANGED <<twin, runs>>

----------------------------------------------------------------------------
(* Two specifications.                                                     *)
(* Spec: the calls that succeed and change a persistent store, with up to  *)
(* MaxClock uuids.                                                         *)
(* SpecCalls: every call on a persistent or in-memory store, with up to    *)
(* MaxCallClock uuids; a behaviour is a sequence of calls that succeed and *)
(* change the store, ended by at most one call that only reads or that     *)
(* fails.                                                                  *)

Succeeds == last'.exc = "ok"

Next ==
    \/ Open(DataDir) /\ Succeeds
    \/ \E k \in Keys, v \in Values : Put(k, v) /\ Succeeds
    \/ \E k \in Keys : Delete(k) /\ Succeeds
    \/ Merge /\ Succeeds
    \/ Close

Spec == Init /\ [][Next]_vars

Ended == last.exc # "ok" \/ last.op \in {"get", "list_keys", "fold", "sync"}

Bounded == clock' <= MaxCallClock

NextCalls ==
    \/ ~Ended /\ \E d \in OpenArgs : Open(d) /\ Bounded
    \/ ~Ended /\ \E k \in Keys, v \in Values \cup {<<>>} : Put(k, v) /\ Bounded
    \/ ~Ended /\ \E k \in Keys : Delete(k) /\ Bounded
    \/ ~Ended /\ \E k \in Keys : Get(k) /\ Bounded
    \/ ~Ended /\ ListKeys /\ Bounded
    \/ ~Ended /\ Fold /\ Bounded
    \/ ~Ended /\ Merge /\ Bounded
    \/ ~Ended /\ Sync /\ Bounded
    \/ ~Ended /\ Close /\ Bounded

SpecCalls == Init /\ [][NextCalls]_vars

(* SpecDamage: sessions of puts and deletes on a persistent store, with up *)
(* to MaxCallClock uuids; once, while the store is closed, a data file is  *)
(* damaged; the open() that follows ends the behaviour.                    *)

Over == last.exc # "ok" \/ (hurt # Unhurt /\ last.op = "open")

NextDamage ==
    \/ ~Over /\ Open(DataDir) /\ Bounded
    \/ ~Over /\ \E k \in Keys, v \in Values : Put(k, v) /\ Succeeds /\ Bounded
    \/ ~Over /\ \E k \in Keys : Delete(k) /\ Succeeds /\ Bounded
    \/ ~Over /\ Close
    \/ ~Over /\ Flip
    \/ ~Over /\ Tear

SpecDamage == Init /\ [][NextDamage]_vars

(* SpecCrash: sessions of puts and deletes on a persistent store, with up  *)
(* to MaxCallClock uuids; once, the process stops during a merge(); the    *)
(* open() that follows ends the behaviour.                                 *)

NextCrash ==
    \/ ~Over /\ Open(DataDir)
    \/ ~Over /\ \E k \in Keys, v \in Values : Put(k, v) /\ Succeeds /\ Bounded
    \/ ~Over /\ \E k \in Keys : Delete(k) /\ Succeeds /\ Bounded
    \/ ~Over /\ Close
    \/ ~Over /\ Crash

SpecCrash == Init /\ [][NextCrash]_vars

(* SpecIter: one session of puts and deletes on a persistent or in-memory  *)
(* store, with up to MaxCallClock uuids, in which the caller starts up to  *)
(* two iterations and advances them step by step; an exception other than *)
(* StopIteration ends the behaviour. While an iteration is under way the   *)
(* keydir changes size at most once before the next step.                  *)

Failed == last.exc \notin {"ok", "StopIteration"}

Underway == \E h \in 1..2 : runs[h].begun /\ runs[h].exc = "ok"

Settled == ~Underway \/ iter.used = Len(keydir)

NextIter ==
    \/ ~Failed /\ \E d \in {DataDir, Memory} : Open(d) /\ Succeeds
    \/ ~Failed /\ Settled
               /\ \E k \in Keys, v \in Values : Put(k, v) /\ Succeeds /\ Bounded
    \/ ~Failed /\ Settled /\ \E k \in Keys : Delete(k) /\ Succeeds /\ Bounded
    \/ ~Failed /\ \E h \in 1..2 : IterStart(h)
    \/ ~Failed /\ \E h \in 1..2 : IterNext(h)

SpecIter == Init /\ [][NextIter]_vars

----------------------------------------------------------------------------
(* Properties.                                                             *)

\* the keys of the keydir, and how often a key is among list_keys()
KeySet == {keydir[i].key : i \in 1..Len(keydir)}
KeyCount(key) == Cardinality({i \in 1..Len(keydir) : keydir[i].key = key})
Found(value) == [exc |-> "ok", ret |-> value]
Store == <<dirname, active, keydir, datadir, cur, fs>>

\* C1: within a session, get(K) of every key the session has put returns the
\* value of the session's most recent put(K, V), and list_keys() holds K
\* exactly once, whatever rotations the puts caused.
C1_LastWriterWins ==
    \A k \in Keys :
        sess[k].state = "put" =>
            /\ get(Self, k) = Found(sess[k].val)
            /\ KeyCount(k) = 1

\* an in-memory session has put a key at least twice and has rotated
C1_Witness ==
    /\ dirname = Memory
    /\ last.op = "put" /\ last.exc = "ok"
    /\ Cardinality(DOMAIN datadir) >= 2
    /\ \E k \in Keys : sess[k].state = "put" /\ sess[k].puts >= 2

\* C2: a key the session deleted last is NotFound and not among list_keys(),
\* whatever the session did with other keys; a key put again after its
\* delete is found with the new value.
C2_Tombstone ==
    \A k \in Keys :
        /\ sess[k].state = "del" =>
            /\ get(Self, k).exc = "KeyError"
            /\ KeyCount(k) = 0
        /\ sess[k].state = "put" /\ sess[k].dels > 0 =>
            get(Self, k) = Found(sess[k].val)

\* a key is deleted, another key has been put, and the store has rotated
C2_Witness ==
    /\ last.op = "delete" /\ last.exc = "ok"
    /\ Cardinality(DOMAIN datadir) >= 2
    /\ \E k \in Keys : sess[k].state = "put"

\* C3: after close() and open() on the same directory, get(K) gives for
\* every key what it gave before the close, whatever order the directory's
\* files are listed in.
C3_RecoveryFidelity ==
    (last.op = "open" /\ last.exc = "ok" /\ dirname = DataDir) =>
        \A k \in Keys : get(Self, k) = atclose[k]

\* C4: merge() leaves the set of keys and get(K) of every key as they were.
C4_MergeFidelity ==
    [][(last'.op = "merge" /\ last'.exc = "ok") =>
        /\ KeySet' = KeySet
        /\ \A k \in Keys : get(Self, k)' = get(Self, k)]_vars

\* a merge has run with live keys both in the active file and in others
C4_Witness ==
    /\ last.op = "merge" /\ last.exc = "ok"
    /\ active # NoActive
    /\ \E i \in 1..Len(keydir) : keydir[i].file_id = active
    /\ \E i \in 1..Len(keydir) : keydir[i].file_id # active

\* C5: merge() does not increase the number of .db files of the directory.
C5_MergeDbCount ==
    [][(last'.op = "merge" /\ last'.exc = "ok") =>
        Cardinality(DbStems(fs')) <= Cardinality(DbStems(fs))]_vars

\* C6: in a session without a delete, list_keys() returns the keys in the
\* order of their first put.
C6_InsertionOrder ==
    (dirname # NoDir /\ ~sdel) => list_keys(Self) = ord

\* C7: fold visits one value per key of the keydir, in the order of
\* list_keys(), each the value get(K) returns, which for a key the session
\* has put is the value put last.
C7_FoldOrder ==
    last.op = "fold" =>
        /\ Len(last.ret) = Len(list_keys(Self))
        /\ \A i \in 1..Len(last.ret) :
            LET k == list_keys(Self)[i]
            IN  /\ get(Self, k) = Found(last.ret[i])
                /\ sess[k].state = "put" => last.ret[i] = sess[k].val

\* a fold after puts, a delete and a rotation has read a value from a file
\* that is not the active one
C7_Witness ==
    /\ last.op = "fold"
    /\ Len(last.ret) >= 1
    /\ sdel
    /\ \E k \in Keys : sess[k].state = "put"
    /\ \E i \in 1..Len(keydir) : keydir[i].file_id # active

\* C8: open() on an open store fails with RuntimeError and changes nothing.
C8_AlreadyOpen ==
    [][(dirname # NoDir /\ last'.op = "open") =>
        /\ last'.exc = "RuntimeError"
        /\ UNCHANGED Store]_vars

\* C9: put(K, V) with an empty V fails with ValueError and changes nothing.
C9_InvalidValue ==
    [][(last'.op = "put" /\ last'.value = <<>>) =>
        /\ last'.exc = "ValueError"
        /\ UNCHANGED <<Store, clock>>]_vars

\* put with an empty value has failed for a key that is in the keydir
C9_Witness ==
    /\ last.op = "put" /\ last.value = <<>> /\ last.exc = "ValueError"
    /\ active # NoActive
    /\ last.key \in KeySet

\* C10: get(K) and delete(K) of a key that is not in the keydir fail with
\* KeyError and change nothing.
C10_NotFound ==
    [][(last'.op \in {"get", "delete"} /\ last'.key \notin KeySet) =>
        /\ last'.exc = "KeyError"
        /\ UNCHANGED <<Store, clock>>]_vars

\* delete has failed for a key the session deleted before
C10_Witness ==
    /\ last.op = "delete" /\ last.exc = "KeyError"
    /\ active # NoActive
    /\ sess[last.key].state = "del"

----------------------------------------------------------------------------
(* The in-memory store.                                                    *)

\* what a caller can observe of a store, and the attributes that do not
\* depend on where the bytes are kept
SameAs(c, t) ==
    /\ c.keydir = t.keydir
    /\ c.active = t.active
    /\ c.cur = t.cur
    /\ c.clock = t.clock
    /\ DOMAIN c.datadir = DOMAIN t.datadir
    /\ \A f \in DOMAIN c.datadir : Content(c, f) = Content(t, f)
    /\ list_keys(c) = list_keys(t)
    /\ \A k \in Keys : get(c, k) = get(t, k)
    /\ IterValues(c) = IterValues(t)

\* C11: on a store opened with ":memory", sync() and merge() fail with
\* RuntimeError and change nothing, and put, get, delete, list_keys (and
\* the rotations they cause) do what they do on a store opened on an empty
\* directory and given the same calls.
C11_InMemory ==
    /\ [](dirname = Memory => SameAs(Self, twin))
    /\ [][(dirname = Memory /\ last'.op \in {"sync", "merge"}) =>
            /\ last'.exc = "RuntimeError"
            /\ UNCHANGED <<Store, clock>>]_vars
    /\ [][(dirname = Memory /\ last'.op = "put") =>
            last'.exc = put(twin, last'.key, last'.value).exc]_vars
    /\ [][(dirname = Memory /\ last'.op = "delete") =>
            last'.exc = delete(twin, last'.key).exc]_vars

\* merge() has failed on an in-memory store that has rotated, holds a key
\* and has deleted one
C11_Witness ==
    /\ dirname = Memory
    /\ last.op = "merge" /\ last.exc = "RuntimeError"
    /\ Cardinality(DOMAIN datadir) >= 2
    /\ keydir # <<>>
    /\ sdel

----------------------------------------------------------------------------
(* close().                                                                *)

\* open(dataDir) is accepted, whatever order the files are listed in
Accepts(dataDir) ==
    \A order \in OpenOrders(Self, dataDir) :
        open(Self, dataDir, order).exc = "ok"

\* C12: close() succeeds in every state and leaves the store closed: no
\* directory, no active segment, empty keydir and segment map; an open()
\* that follows is accepted.
C12_Close ==
    /\ [][last'.op = "close" =>
            /\ last'.exc = "ok"
            /\ dirname' = NoDir
            /\ active' = NoActive
            /\ keydir' = <<>>
            /\ datadir' = <<>>]_vars
    /\ [](last.op = "close" => Accepts(DataDir) /\ Accepts(Memory))

\* a store that has written to its directory has been closed
C12_Witness ==
    /\ last.op = "close"
    /\ cur > 0
    /\ \E n \in DOMAIN fs : Len(fs[n]) > 0

----------------------------------------------------------------------------
(* Recovery from damaged files.                                            *)

\* the keydir has an entry that points into the damaged record
KeepsHurt ==
    \E i \in 1..Len(keydir) :
        /\ keydir[i].file_id = FileId(hurt.stem)
        /\ keydir[i].value_pos >= hurt.off

\* C13: after one bit of the payload of a record was inverted, open() does
\* not map the record's key to that record.
C13_CrcDefense ==
    (hurt.kind = "flip" /\ last.op = "open") =>
        /\ last.exc = "ok"
        /\ ~\E i \in 1..Len(keydir) :
                /\ keydir[i].key = hurt.key
                /\ keydir[i].file_id = FileId(hurt.stem)
                /\ keydir[i].value_pos = hurt.value_pos

\* the entries of the keydir open() would build if the damaged file ended
\* where its damaged record begins
WithoutHurt ==
    LET whole == [fs EXCEPT ![<<hurt.stem, DB>>] = SubSeq(@, 1, hurt.off)]
        c     == [_reset(Self) EXCEPT !.fs = whole]
        order == CHOOSE o \in OpenOrders(c, DataDir) : TRUE
        kd    == open(c, DataDir, order).keydir
    IN  {kd[i] : i \in 1..Len(kd)}

\* C14: when a data file ends with a strict prefix of a record, open()
\* raises nothing, recovers the complete records before it, and no keydir
\* entry refers to the torn record.
C14_TornTail ==
    (hurt.kind = "torn" /\ last.op = "open") =>
        /\ last.exc = "ok"
        /\ ~KeepsHurt
        /\ {keydir[i] : i \in 1..Len(keydir)} = WithoutHurt

----------------------------------------------------------------------------
(* What recovery finds in the directory.                                   *)

\* the entries of a hint file, as read_hint_file delimits them
RECURSIVE HintEntries(_, _)
HintEntries(bytes, off) ==
    IF off + hint_size > Len(bytes) THEN <<>>
    ELSE LET key_sz == FromBE(ReadAt(bytes, off + 16, 4))
         IN <<[tstamp |-> FromBE(ReadAt(bytes, off, 16)),
               key |-> ReadAt(bytes, off + hint_size, key_sz),
               value_sz |-> FromBE(ReadAt(bytes, off + 20, 4)),
               value_pos |-> FromBE(ReadAt(bytes, off + 24, 4))]>>
            \o HintEntries(bytes, off + hint_size + key_sz)

\* the candidates _read_hints meets in the file stem: the entries of its
\* hint file if it has one, the records of the data file otherwise
FileCandidates(files, stem) ==
    LET hf == <<stem, HINT>>
        es == IF hf \in DOMAIN files /\ Len(files[hf]) >= hint_size
              THEN HintEntries(files[hf], 0)
              ELSE Records(files[<<stem, DB>>], 0)
    IN  {KeyRec(es[i].key, FileId(stem), es[i].value_sz, es[i].value_pos,
                es[i].tstamp) : i \in 1..Len(es)}

\* the candidates for a key across all files of the directory
Candidates(files, key) ==
    {c \in UNION {FileCandidates(files, stem) : stem \in DbStems(files)} :
        c.key = key}

\* the candidate with the largest timestamp
Newest(cs) == CHOOSE c \in cs : \A d \in cs : d.tstamp <= c.tstamp

\* the keydir's entries for a key
Entries(key) == {keydir[i] : i \in {j \in 1..Len(keydir) : keydir[j].key = key}}

\* C15: the keydir open() builds maps each key to the candidate with the
\* largest timestamp among all candidates of all files, and has no entry for
\* a key whose newest candidate is a tombstone, whatever order the files are
\* listed in.
C15_LargestTimestamp ==
    (last.op = "open" /\ last.exc = "ok" /\ dirname = DataDir) =>
        \A k \in Keys :
            LET cs == Candidates(fs, k)
            IN  Entries(k) = IF cs = {} \/ Newest(cs).value_sz = 0 THEN {}
                             ELSE {Newest(cs)}

----------------------------------------------------------------------------
(* The keydir and the segments.                                            *)

\* the bytes a keydir entry points at
Pointed(keyrec) ==
    ReadAt(Content(Self, keyrec.file_id), keyrec.value_pos, keyrec.value_sz)

\* whether value is the value most recently put for the key: the one of the
\* session's last put or, for a key the session has not written, the one
\* the key had when the session before was closed
IsLatest(key, value) ==
    /\ sess[key].state = "put" => value = sess[key].val
    /\ sess[key].state = "none" /\ atclose[key].exc = "ok" =>
            value = atclose[key].ret

\* C16: every keydir entry names a segment of the open segment map, and the
\* bytes [value_pos, value_pos + value_sz) of that segment are the value
\* most recently put for the entry's key.
C16_KeydirRange ==
    \A i \in 1..Len(keydir) :
        /\ keydir[i].file_id \in DOMAIN datadir
        /\ IsLatest(keydir[i].key, Pointed(keydir[i]))

----------------------------------------------------------------------------
(* The active segment.                                                     *)

\* the data file n is not the file of the active segment
Sealed(n) == n[2] = DB /\ (active = NoActive \/ datadir[active].name # n)

\* the file objects of the segment map that are open for writing
Writable == {f \in DOMAIN datadir : datadir[f].mode # "rb"}

\* the number of puts and deletes of the session
Writes(keys) ==
    BagCardinality([k \in {j \in keys : sess[j].puts + sess[j].dels > 0} |->
                        sess[k].puts + sess[k].dels])

\* C17: at most one segment is open for writing, the active one; a data
\* file that is not the active segment's keeps its bytes until merge removes
\* it; open() creates no active segment and no file, and the first put or
\* delete after it writes to a file that was not in the directory.
C17_OnlyActiveWritten ==
    /\ [](Writable \subseteq {active})
    /\ [][\A n \in DOMAIN fs :
            Sealed(n) => IF n \in DOMAIN fs' THEN fs'[n] = fs[n]
                         ELSE last'.op = "merge"]_vars
    /\ [][last'.op = "open" => active' = NoActive /\ fs' = fs]_vars
    /\ [][(last'.op \in {"put", "delete"} /\ last'.exc = "ok"
                /\ active = NoActive) =>
            /\ active' # NoActive
            /\ datadir'[active'].name \notin DOMAIN fs
            /\ fs'[datadir'[active'].name] = Encode(clock', last'.key, last'.value)]_vars

\* the first write of a session that found a data file with a record in the
\* directory has been made
C17_Witness ==
    /\ last.op \in {"put", "delete"} /\ last.exc = "ok"
    /\ Writes(Keys) = 1
    /\ active # NoActive
    /\ \E n \in DOMAIN fs : Sealed(n) /\ Len(fs[n]) > 0
    /\ FileId(clock - 1) = active

----------------------------------------------------------------------------
(* The cursor.                                                             *)

\* the bytes of the active segment
ActiveBytes == IF active = NoActive THEN <<>> ELSE Content(Self, active)

\* the last call was a put or a delete that wrote its record
Wrote == last.op \in {"put", "delete"} /\ last.exc = "ok"

\* C18: while there is an active segment the cursor is its length; a write
\* appends its record to the bytes the segment had, or makes it the first
\* record of a new segment; the keydir entry a put creates has value_pos =
\* cursor - value_sz, where the value's bytes are; calls that do not write
\* (merge, open, close) leave the active segment and the cursor alone.
C18_Cursor ==
    /\ [](active # NoActive => cur = Len(ActiveBytes))
    /\ [][Wrote' =>
            /\ ActiveBytes' = (IF active' = active THEN ActiveBytes ELSE <<>>)
                                \o Encode(clock', last'.key, last'.value)
            /\ last'.op = "put" =>
                /\ DictGet(keydir', last'.key) =
                        KeyRec(last'.key, active', Len(last'.value),
                               cur' - Len(last'.value), clock')
                /\ SubSeq(ActiveBytes', cur' - Len(last'.value) + 1, cur') =
                        last'.value]_vars
    /\ [][(~Wrote' /\ active' # NoActive) =>
            active' = active /\ ActiveBytes' = ActiveBytes /\ cur' = cur]_vars

\* a put has appended a record to an active segment that held one, in a
\* directory with another data file that holds records
C18_Witness ==
    /\ last.op = "put" /\ last.exc = "ok"
    /\ active # NoActive
    /\ Len(Records(ActiveBytes, 0)) >= 2
    /\ \E n \in DOMAIN fs : Sealed(n) /\ Len(fs[n]) > 0

----------------------------------------------------------------------------
(* Tombstones.                                                             *)

\* the records with the key in the data files of the directory
KeyRecords(files, key) ==
    UNION {LET recs == Records(files[<<stem, DB>>], 0)
           IN  {[stem |-> stem, tstamp |-> recs[i].tstamp,
                 value_sz |-> recs[i].value_sz] :
                    i \in {j \in 1..Len(recs) : recs[j].key = key}} :
           stem \in DbStems(files)}

\* C19: after every call that succeeds on an open store, a key that has
\* records in the segments is absent from the keydir exactly if the newest
\* of them is a tombstone.
C19_TombstoneNewest ==
    (dirname = DataDir /\ last.exc = "ok") =>
        \A k \in Keys :
            LET rs == KeyRecords(fs, k)
            IN  rs # {} => (KeyCount(k) = 0 <=> Newest(rs).value_sz = 0)

----------------------------------------------------------------------------
(* Rotation.                                                               *)

\* the length of the record the last call wrote
WrittenLen == header_size + Len(last.key) + Len(last.value)

\* the offset of the last record of a segment
LastOffset(bytes) ==
    LET recs == Records(bytes, 0)
    IN  IF Len(recs) = 0 THEN 0 ELSE recs[Len(recs)].off

\* the segments: the data files of the directory and the buffers of the
\* segment map
Segments ==
    {fs[n] : n \in {m \in DOMAIN fs : m[2] = DB}}
        \cup {Content(Self, f) : f \in DOMAIN datadir}

\* C20: a put or delete starts a new active segment exactly if there is no
\* active segment or the cursor is above the threshold, and then the cursor
\* restarts at 0 and the segment that was active keeps its id and its bytes
\* in the segment map, not open for writing; otherwise the record goes to
\* the active segment. No segment's last record begins above the threshold.
C20_Rotation ==
    /\ [][Wrote' =>
            IF active = NoActive \/ cur > Threshold
            THEN /\ active' # active
                 /\ active' \notin DOMAIN datadir
                 /\ cur' = WrittenLen'
                 /\ active # NoActive =>
                        /\ active \in DOMAIN datadir'
                        /\ Content(Self', active) = Content(Self, active)
                        /\ datadir'[active].mode \in {"rb", "mem"}
            ELSE /\ active' = active
                 /\ cur' = cur + WrittenLen']_vars
    /\ [](\A bytes \in Segments : LastOffset(bytes) <= Threshold)

\* a session has written two records to a segment and, the cursor being
\* above the threshold, a third to a new one
C20_Witness ==
    /\ Wrote
    /\ Writes(Keys) >= 3
    /\ active # NoActive
    /\ cur = WrittenLen
    /\ \E f \in DOMAIN datadir \ {active} :
            Len(Records(Content(Self, f), 0)) >= 2

----------------------------------------------------------------------------
(* merge() and the active segment.                                         *)

\* the keys whose newest record is in the active segment
ActiveKeys ==
    {k \in Keys :
        LET rs == KeyRecords(fs, k)
        IN  /\ active # NoActive
            /\ rs # {}
            /\ FileId(Newest(rs).stem) = active}

\* the keys of the records of the data files in files that are not in old
NewKeys(old, files) ==
    UNION {LET recs == Records(files[n], 0)
           IN  {recs[i].key : i \in 1..Len(recs)} :
           n \in {m \in DOMAIN files \ DOMAIN old : m[2] = DB}}

\* C21: merge() leaves the active segment's id, its file object, its bytes
\* and the cursor as they were, keeps every keydir entry that points into
\* the active segment, and copies no key whose newest record is in the
\* active segment into the files it adds.
C21_MergeKeepsActive ==
    [][(last'.op = "merge" /\ last'.exc = "ok") =>
            /\ active' = active
            /\ cur' = cur
            /\ active # NoActive =>
                    /\ datadir'[active] = datadir[active]
                    /\ ActiveBytes' = ActiveBytes
            /\ \A i \in 1..Len(keydir) :
                    keydir[i].file_id = active =>
                        /\ KeyCount(keydir[i].key)' = 1
                        /\ DictGet(keydir', keydir[i].key) = keydir[i]
            /\ NewKeys(fs, fs') \cap ActiveKeys = {}]_vars

\* merge() has copied a key of a sealed segment while the active segment
\* held the newest record of another key
C21_Witness ==
    /\ last.op = "merge" /\ last.exc = "ok"
    /\ active # NoActive
    /\ cur > 0
    /\ \E i \in 1..Len(keydir) : keydir[i].file_id = active
    /\ \E i \in 1..Len(keydir) : keydir[i].file_id # active
    /\ \E n \in DOMAIN fs : n[2] = HINT

----------------------------------------------------------------------------
(* Recovery after an interrupted merge().                                  *)

\* C22: when the process has stopped during merge(), open() on the data
\* directory succeeds and get(K) gives for every key what it gave before
\* merge() was called; no deleted key is back.
C22_CrashDuringMerge ==
    (hurt.kind = "crash" /\ last.op = "open") =>
        /\ last.exc = "ok"
        /\ \A k \in Keys : get(Self, k) = atclose[k]

----------------------------------------------------------------------------
(* Iterations.                                                             *)

\* C23: an iteration that runs alone and has made a step, whatever is put
\* or deleted between its steps, ends without error, with one value for
\* each key the keydir held when it was started.
C23_IterationSnapshot ==
    (runs[1].begun /\ ~runs[2].begun /\ runs[1].got # <<>>) =>
        /\ runs[1].exc \in {"ok", "StopIteration"}
        /\ Len(runs[1].got) <= Len(runs[1].snap)
        /\ runs[1].exc = "StopIteration" =>
                Len(runs[1].got) = Len(runs[1].snap)

\* s is the beginning of t
IsPrefix(s, t) == Len(s) <= Len(t) /\ SubSeq(t, 1, Len(s)) = s

\* C24: of two iterations on a store that is not written to, advanced in any
\* interleaving, each yields the values in keydir order, all of them, as it
\* would alone.
C24_IndependentIterations ==
    \A h \in 1..2 :
        (runs[h].begun /\ \A g \in 1..2 : runs[g].begun => runs[g].at = clock) =>
            /\ IsPrefix(runs[h].got, runs[h].snap)
            /\ runs[h].exc \in {"ok", "StopIteration"}
            /\ runs[h].exc = "StopIteration" => runs[h].got = runs[h].snap

----------------------------------------------------------------------------
(* sync().                                                                 *)

\* C25: on an open persistent store sync() succeeds in every state, also
\* before the first write of the session has created an active segment,
\* and changes neither the keydir, the segment map, the active segment nor
\* the cursor.
C25_Sync ==
    [][(dirname = DataDir /\ last'.op = "sync") =>
            /\ last'.exc = "ok"
            /\ UNCHANGED <<keydir, datadir, active, cur, fs>>]_vars

====
